---- MODULE Spec2Model ----
(***************************************************************************)
(* Model of rastermap/io.py: load_activity, its key-resolution helper      *)
(* _load_dict, and the sibling lookups _load_iscell and _load_stat.        *)
(*                                                                         *)
(* An array is modelled by its shape (a tuple of naturals) and a tag that  *)
(* names its contents; Python's None and an unassigned local are values of *)
(* their own.  A raised exception is a string "Class: message".            *)
(***************************************************************************)
EXTENDS Integers, Sequences, FiniteSets, TLC

VARIABLES op, file, out, sib, sibout

vars == <<op, file, out, sib, sibout>>

----------------------------------------------------------------------------
(* Values *)

None == [t |-> "None", shape |-> <<>>, data |-> ""]

Unbound == [t |-> "Unbound", shape |-> <<>>, data |-> ""]

Arr(shape, data) == [t |-> "arr", shape |-> shape, data |-> data]

IsNone(a) == a.t = "None"

IsUnbound(a) == a.t = "Unbound"

IsArr(a) == a.t = "arr"

Ndim(a) == Len(a.shape)

Shape0(a) == a.shape[1]

ShapeLast(a) == a.shape[Len(a.shape)]

RECURSIVE Prod(_)
Prod(s) == IF s = <<>> THEN 1 ELSE s[1] * Prod(Tail(s))

Size(a) == Prod(a.shape)

RECURSIVE Reverse(_)
Reverse(s) == IF s = <<>> THEN <<>> ELSE Append(Reverse(Tail(s)), s[1])

NoErr == ""

ErrUnbound(name) == "UnboundLocalError: " \o name

ErrNoneShape == "AttributeError: 'NoneType' object has no attribute 'shape'"

ErrDictNdim == "AttributeError: 'dict' object has no attribute 'ndim'"

ErrTupleIndex == "IndexError: tuple index out of range"

ErrStrIndex == "IndexError: only integers, slices and arrays are valid indices"

ErrBroadcast == "ValueError: operands could not be broadcast together"

ErrStack == "ValueError: all input arrays must have the same shape"

ErrAxis == "AxisError: axis is out of bounds"

ErrItem == "ValueError: can only convert an array of size 1 to a Python scalar"

ErrNoSv == "ValueError: no Sv scaling for PCs available"

ErrComponents == "ValueError: Usv and Vsv must have the same number of components"

ErrUsvDims == "ValueError: Usv cannot have more than 3 dimensions"

ErrVsvDims == "ValueError: Vsv must have 2 dimensions"

ErrInvalidFileType == "Exception: Invalid file type"

Err1D == "ValueError: ERROR: 1D array provided, but rastermap requires 2D array"

ErrND == "ValueError: ERROR: nD array provided (n>3), but rastermap requires 2D array"

ErrFewNeurons == "ValueError: ERROR: matrix with fewer than 10 neurons provided"

(* The error of evaluating a.shape[i] (i = 0 or -1) on the local named name *)
ShapeIndexErr(a, name) ==
    IF IsUnbound(a) THEN ErrUnbound(name)
    ELSE IF IsNone(a) THEN ErrNoneShape
    ELSE IF Ndim(a) = 0 THEN ErrTupleIndex
    ELSE NoErr

----------------------------------------------------------------------------
(* numpy operations on shapes *)

PadLeft(s, n) == [i \in 1..n |-> IF i <= n - Len(s) THEN 1 ELSE s[i - (n - Len(s))]]

Max(a, b) == IF a >= b THEN a ELSE b

(* a * b with numpy broadcasting: the shape, or <<-1>> when it raises *)
BroadcastShape(s1, s2) ==
    LET n == Max(Len(s1), Len(s2))
        p == PadLeft(s1, n)
        q == PadLeft(s2, n)
    IN  IF \A i \in 1..n : p[i] = q[i] \/ p[i] = 1 \/ q[i] = 1
        THEN [i \in 1..n |-> IF p[i] = 1 THEN q[i] ELSE p[i]]
        ELSE <<-1>>

(* U * Sv *)
Mul(a, b) == Arr(BroadcastShape(a.shape, b.shape), a.data \o "*" \o b.data)

MulErr(a, b) == IF BroadcastShape(a.shape, b.shape) = <<-1>> THEN ErrBroadcast ELSE NoErr

(* (A**2).sum(axis=0)**0.5 : the norms along the leading axis *)
ColNorms(a) == Arr(Tail(a.shape), "norm0(" \o a.data \o ")")

ColNormsErr(a) == IF Ndim(a) = 0 THEN ErrAxis ELSE NoErr

(* np.stack((xpos, ypos), axis=1) *)
StackErr(a, b) ==
    IF ~IsArr(b) \/ a.shape # b.shape THEN ErrStack
    ELSE IF Ndim(a) = 0 THEN ErrAxis
    ELSE NoErr

Stack(a, b) == Arr(<<a.shape[1], 2>> \o Tail(a.shape),
                   "stack(" \o a.data \o "," \o b.data \o ")")

(* xy.T *)
Transpose(a) == Arr(Reverse(a.shape), a.data \o ".T")

(* X.reshape(X.shape[0], -1) *)
Flatten(a) == Arr(<<a.shape[1], Prod(Tail(a.shape))>>, a.data)

----------------------------------------------------------------------------
(* _load_dict: key resolution over a mapping of named arrays *)

(* The locals of _load_dict after line 10: U, V and Sv are not assigned *)
InitLocals ==
    [X |-> None, Usv |-> None, Vsv |-> None, xpos |-> None, ypos |-> None,
     xy |-> None, U |-> Unbound, V |-> Unbound, Sv |-> Unbound, err |-> NoErr]

Raise(e, msg) == [e EXCEPT !.err = msg]

(* An exception is propagating: the steps that follow are skipped, which  *)
(* each step says by leaving a failed e as it is                          *)
Failed(e) == e.err # NoErr

(* One iteration of the loop over keys: the if/elif chain on the key name *)
AssignKey(e, key, val) ==
    IF key = "Usv" THEN [e EXCEPT !.Usv = val]
    ELSE IF key = "Vsv" THEN [e EXCEPT !.Vsv = val]
    ELSE IF key = "U" THEN [e EXCEPT !.U = val]
    ELSE IF key = "U0" THEN [e EXCEPT !.U = val]
    ELSE IF key = "V" THEN [e EXCEPT !.V = val]
    ELSE IF key = "V0" THEN [e EXCEPT !.V = val]
    ELSE IF key = "Sv" THEN [e EXCEPT !.Sv = val]
    ELSE IF key = "sv" THEN [e EXCEPT !.Sv = val]
    ELSE IF key = "X" THEN [e EXCEPT !.X = val]
    ELSE IF key = "spks" THEN [e EXCEPT !.X = val]
    ELSE IF key = "xpos" THEN [e EXCEPT !.xpos = val]
    ELSE IF key = "ypos" THEN [e EXCEPT !.ypos = val]
    ELSE IF key = "xy" THEN [e EXCEPT !.xy = val]
    ELSE IF key = "xyz" THEN [e EXCEPT !.xy = val]
    ELSE e

RECURSIVE AssignKeys(_, _)
AssignKeys(e, items) ==
    IF items = <<>> THEN e
    ELSE AssignKeys(AssignKey(e, items[1].key, items[1].val), Tail(items))

(* `a is None and b is not None and c is None`, left to right with short  *)
(* circuit: "T", "F", or the error of reading an unassigned local         *)
CondNeedsSv(a, b, bname, c, cname) ==
    IF ~IsNone(a) THEN "F"
    ELSE IF IsUnbound(b) THEN ErrUnbound(bname)
    ELSE IF IsNone(b) THEN "F"
    ELSE IF IsUnbound(c) THEN ErrUnbound(cname)
    ELSE IF IsNone(c) THEN "T" ELSE "F"

(* `a is None and b is not None and c is not None` *)
CondCanScale(a, b, bname, c, cname) ==
    IF ~IsNone(a) THEN "F"
    ELSE IF IsUnbound(b) THEN ErrUnbound(bname)
    ELSE IF IsNone(b) THEN "F"
    ELSE IF IsUnbound(c) THEN ErrUnbound(cname)
    ELSE IF IsNone(c) THEN "F" ELSE "T"

SvFrom(e, other) ==
    IF ~IsNone(other)
    THEN IF ColNormsErr(other) # NoErr THEN Raise(e, ColNormsErr(other))
         ELSE [e EXCEPT !.Sv = ColNorms(other)]
    ELSE Raise(e, ErrNoSv)

(* lines 45-54 *)
DeriveSv(e) ==
    LET c1 == CondNeedsSv(e.Usv, e.U, "U", e.Sv, "Sv")
        c2 == CondNeedsSv(e.Vsv, e.V, "V", e.Sv, "Sv")
    IN  IF c1 = "T" THEN SvFrom(e, e.Vsv)
        ELSE IF c1 # "F" THEN Raise(e, c1)
        ELSE IF c2 = "T" THEN SvFrom(e, e.Usv)
        ELSE IF c2 # "F" THEN Raise(e, c2)
        ELSE e

(* lines 55-56 *)
ScaleUsv(e) ==
    LET c == CondCanScale(e.Usv, e.U, "U", e.Sv, "Sv")
    IN  IF Failed(e) THEN e
        ELSE IF c = "T"
        THEN IF MulErr(e.U, e.Sv) # NoErr THEN Raise(e, MulErr(e.U, e.Sv))
             ELSE [e EXCEPT !.Usv = Mul(e.U, e.Sv)]
        ELSE IF c # "F" THEN Raise(e, c)
        ELSE e

(* lines 57-58 *)
ScaleVsv(e) ==
    LET c == CondCanScale(e.Vsv, e.V, "V", e.Sv, "Sv")
    IN  IF Failed(e) THEN e
        ELSE IF c = "T"
        THEN IF MulErr(e.V, e.Sv) # NoErr THEN Raise(e, MulErr(e.V, e.Sv))
             ELSE [e EXCEPT !.Vsv = Mul(e.V, e.Sv)]
        ELSE IF c # "F" THEN Raise(e, c)
        ELSE e

(* lines 60-65 *)
CheckFactors(e) ==
    IF Failed(e) THEN e
    ELSE IF ShapeIndexErr(e.Usv, "Usv") # NoErr THEN Raise(e, ShapeIndexErr(e.Usv, "Usv"))
    ELSE IF ShapeIndexErr(e.Vsv, "Vsv") # NoErr THEN Raise(e, ShapeIndexErr(e.Vsv, "Vsv"))
    ELSE IF ShapeLast(e.Usv) # ShapeLast(e.Vsv) THEN Raise(e, ErrComponents)
    ELSE IF Ndim(e.Usv) > 3 THEN Raise(e, ErrUsvDims)
    ELSE IF Ndim(e.Vsv) # 2 THEN Raise(e, ErrVsvDims)
    ELSE e

(* lines 44-65: only when no X was found *)
ResolveFactors(e) ==
    IF ~IsNone(e.X) THEN e
    ELSE CheckFactors(ScaleVsv(ScaleUsv(DeriveSv(e))))

(* lines 67-68 *)
StackXY(e) ==
    IF Failed(e) THEN e
    ELSE IF ~IsNone(e.xpos) /\ IsNone(e.xy)
    THEN IF StackErr(e.xpos, e.ypos) # NoErr THEN Raise(e, StackErr(e.xpos, e.ypos))
         ELSE [e EXCEPT !.xy = Stack(e.xpos, e.ypos)]
    ELSE e

(* lines 71-75 *)
OrientXY(e) ==
    IF Ndim(e.xy) # 2 THEN [e EXCEPT !.xy = None]
    ELSE IF Shape0(e.xy) = 2 \/ Shape0(e.xy) = 3 THEN [e EXCEPT !.xy = Transpose(e.xy)]
    ELSE e

(* MatchXY with the comparison against X left out *)
MatchXY_UsvOnly(e) ==
    IF ShapeIndexErr(e.Usv, "Usv") # NoErr THEN Raise(e, ShapeIndexErr(e.Usv, "Usv"))
    ELSE IF Shape0(e.Usv) # Shape0(e.xy) THEN [e EXCEPT !.xy = None]
    ELSE e

(* lines 77-80: the if / elif on the unit counts *)
MatchXY(e) ==
    IF ~IsNone(e.X) /\ ShapeIndexErr(e.X, "X") # NoErr THEN Raise(e, ShapeIndexErr(e.X, "X"))
    ELSE IF ~IsNone(e.X) /\ Shape0(e.X) # Shape0(e.xy) THEN [e EXCEPT !.xy = None]
    ELSE IF ShapeIndexErr(e.Usv, "Usv") # NoErr THEN Raise(e, ShapeIndexErr(e.Usv, "Usv"))
    ELSE IF Shape0(e.Usv) # Shape0(e.xy) THEN [e EXCEPT !.xy = None]
    ELSE e

(* lines 70-82 *)
CheckXY(e) ==
    IF Failed(e) \/ IsNone(e.xy) THEN e
    ELSE LET e1 == OrientXY(e)
         IN  IF IsNone(e1.xy) THEN e1 ELSE MatchXY(e1)

(* _load_dict(dat, keys), items being the pairs (key, dat[key]) in the    *)
(* order of keys: the locals at the return, or the exception in err       *)
_load_dict(items) ==
    CheckXY(StackXY(ResolveFactors(AssignKeys(InitLocals, items))))

----------------------------------------------------------------------------
(* load_activity *)

(* What loadmat gives before a variable is picked: a dict, not an array *)
Dict == [t |-> "dict", shape |-> <<>>, data |-> ""]

IsDict(a) == a.t = "dict"

MinNeurons == 10

(* An outcome of load_activity: a returned 4-tuple, the bare `return` of  *)
(* line 123 (Python's None, no tuple), or a raised exception              *)
Returned(X, Usv, Vsv, xy) ==
    [kind |-> "return", err |-> NoErr, X |-> X, Usv |-> Usv, Vsv |-> Vsv, xy |-> xy]

ReturnedNone ==
    [kind |-> "returnNone", err |-> NoErr, X |-> None, Usv |-> None, Vsv |-> None, xy |-> None]

Raised(msg) ==
    [kind |-> "raise", err |-> msg, X |-> None, Usv |-> None, Vsv |-> None, xy |-> None]

NoOutcome ==
    [kind |-> "none", err |-> NoErr, X |-> None, Usv |-> None, Vsv |-> None, xy |-> None]

(* The locals X, Usv, Vsv, xy of load_activity after the format dispatch *)
Locals(X, Usv, Vsv, xy) == [X |-> X, Usv |-> Usv, Vsv |-> Vsv, xy |-> xy, err |-> NoErr]

LocalsErr(msg) == [X |-> None, Usv |-> None, Vsv |-> None, xy |-> Unbound, err |-> msg]

(* `X, Usv, Vsv, xy = _load_dict(dat, keys)` *)
FromDict(items) ==
    LET e == _load_dict(items)
    IN  IF e.err # NoErr THEN LocalsErr(e.err) ELSE Locals(e.X, e.Usv, e.Vsv, e.xy)

(* sio.loadmat gives every variable as an array of at least 2 dimensions: *)
(* a scalar is (1, 1) and a vector a row (1, n)                           *)
AsMatrix(a) ==
    IF Ndim(a) = 0 THEN Arr(<<1, 1>>, a.data)
    ELSE IF Ndim(a) = 1 THEN Arr(<<1, a.shape[1]>>, a.data)
    ELSE a

(* lines 92-96: the standard reader returned a dict of the reserved keys  *)
(* followed by the file's variables; X is rebound at each variable, so a  *)
(* second variable indexes an array by a string.  xy is never assigned.   *)
MatStandard(f) ==
    IF Len(f.items) = 0 THEN Locals(Dict, None, None, Unbound)
    ELSE IF Len(f.items) = 1 THEN Locals(AsMatrix(f.items[1].val), None, None, Unbound)
    ELSE LocalsErr(ErrStrIndex)

(* MatAlternate with the failed import swallowed whole: nothing is read *)
MatAlternate_Swallowed(f) ==
    IF ~f.mat73 THEN Locals(None, None, None, None)
    ELSE FromDict(f.items)

(* lines 97-108: the standard reader raised NotImplementedError; a failed *)
(* import is reported and execution goes on to use the name mat73         *)
MatAlternate(f) ==
    IF ~f.mat73 THEN LocalsErr(ErrUnbound("mat73"))
    ELSE FromDict(f.items)

(* lines 90-108 *)
DispatchMat(f) == IF f.v73 THEN MatAlternate(f) ELSE MatStandard(f)

(* X.item() of line 111 raises unless the array holds one element *)
ItemErr(a) == IF Size(a) # 1 THEN ErrItem ELSE NoErr

(* lines 109-114 *)
DispatchNpy(f) ==
    IF f.dict THEN FromDict(f.items)
    ELSE IF ItemErr(f.arr) # NoErr THEN LocalsErr(ItemErr(f.arr))
    ELSE Locals(f.arr, None, None, Unbound)

(* lines 115-118 *)
DispatchNpz(f) == FromDict(f.items)

(* Dispatch without the final else: any other extension is read as .npz *)
Dispatch_NoElse(f) ==
    IF f.ext = ".mat" THEN DispatchMat(f)
    ELSE IF f.ext = ".npy" THEN DispatchNpy(f)
    ELSE DispatchNpz(f)

(* lines 87-120 *)
Dispatch(f) ==
    IF f.ext = ".mat" THEN DispatchMat(f)
    ELSE IF f.ext = ".npy" THEN DispatchNpy(f)
    ELSE IF f.ext = ".npz" THEN DispatchNpz(f)
    ELSE LocalsErr(ErrInvalidFileType)

(* line 122 *)
NothingResolved(l) == IsNone(l.X) /\ (IsNone(l.Usv) \/ IsNone(l.Vsv))

(* TooFewNeurons off by one *)
TooFewNeurons_OffByOne(X) == Shape0(X) < MinNeurons - 1

(* line 137 *)
TooFewNeurons(X) == Shape0(X) < MinNeurons

(* lines 125-140: the exception the checks on X raise, or NoErr *)
CheckX(X) ==
    IF IsDict(X) THEN ErrDictNdim
    ELSE IF Ndim(X) = 1 THEN Err1D
    ELSE IF Ndim(X) > 3 THEN ErrND
    ELSE IF Ndim(X) = 0 THEN ErrTupleIndex
    ELSE IF TooFewNeurons(X) THEN ErrFewNeurons
    ELSE NoErr

(* lines 142-146 *)
FlattenX(X) == IF Ndim(X) = 3 THEN Flatten(X) ELSE X

(* lines 122-148 *)
PostValidate(l) ==
    IF NothingResolved(l) THEN ReturnedNone
    ELSE IF ~IsNone(l.X) /\ CheckX(l.X) # NoErr THEN Raised(CheckX(l.X))
    ELSE IF IsUnbound(l.xy) THEN Raised(ErrUnbound("xy"))
    ELSE Returned(IF IsNone(l.X) THEN l.X ELSE FlattenX(l.X), l.Usv, l.Vsv, l.xy)

load_activity(f) ==
    LET l == Dispatch(f)
    IN  IF l.err # NoErr THEN Raised(l.err) ELSE PostValidate(l)

----------------------------------------------------------------------------
(* _load_iscell and _load_stat *)

NonePath == "None"

SibReturned(val, path) == [kind |-> "return", err |-> NoErr, val |-> val, path |-> path]

SibRaised(msg) == [kind |-> "raise", err |-> msg, val |-> None, path |-> NonePath]

NoSibOutcome == [kind |-> "none", err |-> NoErr, val |-> None, path |-> NonePath]

ErrOS == "OSError: cannot open file"

ErrTooManyIndices == "IndexError: too many indices for array"

ErrIndexBounds == "IndexError: index 1 is out of bounds for axis 1"

ErrKeyMed == "KeyError: 'med'"

(* The exception classes of the except clauses, lines 157 and 168 *)
Caught(msg) ==
    \E c \in {"ValueError", "OSError", "RuntimeError", "TypeError", "NameError"} :
        SubSeq(msg, 1, Len(c) + 1) = c \o ":"

(* lines 154-156: the exception of the try body, or NoErr *)
IscellErr(s) ==
    IF s.state # "present" THEN ErrOS
    ELSE IF Len(s.shape) < 2 THEN ErrTooManyIndices
    ELSE IF s.shape[2] < 2 THEN ErrIndexBounds
    ELSE NoErr

(* iscell[:, 0].astype("bool") *)
IscellColumn(s) == Arr(<<s.shape[1]>> \o SubSeq(s.shape, 3, Len(s.shape)), "iscell[:,0]")

_load_iscell(s) ==
    IF IscellErr(s) = NoErr THEN SibReturned(IscellColumn(s), "iscell.npy")
    ELSE IF Caught(IscellErr(s)) THEN SibReturned(None, NonePath)
    ELSE SibRaised(IscellErr(s))

(* lines 166-167: the exception of the try body, or NoErr *)
StatErr(s) ==
    IF s.state # "present" THEN ErrOS
    ELSE IF \E i \in 1..Len(s.med) : ~s.med[i] THEN ErrKeyMed
    ELSE NoErr

(* np.array([s["med"] for s in stat]) *)
StatPositions(s) ==
    Arr(IF Len(s.med) = 0 THEN <<0>> ELSE <<Len(s.med), 2>>, "med")

_load_stat(s) ==
    IF StatErr(s) = NoErr THEN SibReturned(StatPositions(s), "stat.npy")
    ELSE IF Caught(StatErr(s)) THEN SibReturned(None, NonePath)
    ELSE SibRaised(StatErr(s))

----------------------------------------------------------------------------
(* The inputs *)

NumSamples == 4

NumComp == 2

MaxKeys == 3

MaxDefects == 1

MaxStat == 2

(* The recognised key names of lines 13-40 and one unrecognised name *)
KeyOrder ==
    <<"X", "spks", "Usv", "Vsv", "U", "U0", "V", "V0", "Sv", "sv",
      "xpos", "ypos", "xy", "xyz", "arr_0">>

Keys == {KeyOrder[i] : i \in 1..Len(KeyOrder)}

(* The shape a key has in a well-formed file of MinNeurons units *)
BaseShape(key) ==
    IF key \in {"X", "spks", "arr_0"} THEN <<MinNeurons, NumSamples>>
    ELSE IF key \in {"Usv", "U", "U0"} THEN <<MinNeurons, NumComp>>
    ELSE IF key \in {"Vsv", "V", "V0"} THEN <<NumSamples, NumComp>>
    ELSE IF key \in {"Sv", "sv"} THEN <<NumComp>>
    ELSE IF key \in {"xpos", "ypos"} THEN <<MinNeurons>>
    ELSE IF key = "xy" THEN <<MinNeurons, 2>>
    ELSE <<MinNeurons, 3>>

(* The other shapes a key may have *)
Variants(key) ==
    IF key \in {"X", "spks", "arr_0"}
    THEN {<<MinNeurons - 1, NumSamples>>, <<MinNeurons + 1, NumSamples>>, <<MinNeurons>>,
          <<MinNeurons, NumSamples, 3>>, <<MinNeurons, NumSamples, 3, 1>>, <<>>}
    ELSE IF key = "Usv"
    THEN {<<MinNeurons, NumComp + 1>>, <<MinNeurons + 1, NumComp>>,
          <<2, MinNeurons, NumComp>>, <<1, 1, MinNeurons, NumComp>>}
    ELSE IF key = "Vsv"
    THEN {<<NumSamples, NumComp + 1>>, <<NumComp>>, <<1, NumSamples, NumComp>>}
    ELSE IF key \in {"U", "U0"} THEN {<<MinNeurons, NumComp + 1>>}
    ELSE IF key \in {"V", "V0"} THEN {<<NumSamples, NumComp + 1>>}
    ELSE IF key \in {"Sv", "sv"} THEN {<<NumComp + 1>>}
    ELSE IF key \in {"xpos", "ypos"} THEN {<<MinNeurons + 1>>}
    ELSE IF key = "xy" THEN {<<2, MinNeurons>>, <<MinNeurons + 1, 2>>, <<MinNeurons>>}
    ELSE {<<3, MinNeurons>>, <<MinNeurons + 1, 3>>}

AllVariants == UNION {Variants(k) : k \in Keys}

(* The mappings: at most MaxKeys keys, in the order of KeyOrder or the    *)
(* reverse (see Orders), at most MaxDefects of them with a shape of Variants           *)
KeySets == {S \in SUBSET Keys : Cardinality(S) <= MaxKeys}

(* Two names of one slot: the later one in the file wins (lines 13-40).   *)
(* The order of the keys changes nothing else, so only these key sets are *)
(* taken in both orders.                                                  *)
SameSlot ==
    {{"X", "spks"}, {"U", "U0"}, {"V", "V0"}, {"Sv", "sv"}, {"xy", "xyz"}}

Orders(S) == IF \E P \in SameSlot : P \subseteq S THEN BOOLEAN ELSE {FALSE}

DefectSets(S) == {D \in SUBSET S : Cardinality(D) <= MaxDefects}

DefectShapes(D) == {v \in [D -> AllVariants] : \A k \in D : v[k] \in Variants(k)}

ItemsOf(S, rev, D, v) ==
    LET ks  == SelectSeq(KeyOrder, LAMBDA k : k \in S)
        ord == IF rev THEN Reverse(ks) ELSE ks
    IN  [i \in 1..Len(ord) |->
            [key |-> ord[i],
             val |-> Arr(IF ord[i] \in D THEN v[ord[i]] ELSE BaseShape(ord[i]), ord[i])]]

MappingFile(ext, v73, mat73, items) ==
    [ext |-> ext, v73 |-> v73, mat73 |-> mat73, dict |-> TRUE, arr |-> None, items |-> items]

ArrayFile(ext, shape) ==
    [ext |-> ext, v73 |-> FALSE, mat73 |-> FALSE, dict |-> FALSE,
     arr |-> Arr(shape, "payload"), items |-> <<>>]

NoFile == ArrayFile("", <<>>)

PlainShapes == {BaseShape("X"), <<1, 1>>} \cup Variants("X")

NoSibling == [state |-> "none", shape |-> <<>>, med |-> <<>>]

IscellShapes ==
    {<<MinNeurons, 2>>, <<MinNeurons, 1>>, <<MinNeurons, 3>>, <<MinNeurons>>, <<>>,
     <<MinNeurons, 2, 2>>}

StatRecords == UNION {[1..n -> BOOLEAN] : n \in 0..MaxStat}

----------------------------------------------------------------------------
(* The operations *)

Init ==
    /\ op = "idle"
    /\ file = NoFile
    /\ out = NoOutcome
    /\ sib = NoSibling
    /\ sibout = NoSibOutcome

Called(name, f, o) ==
    /\ op' = name
    /\ file' = f
    /\ out' = o
    /\ sib' = NoSibling
    /\ sibout' = NoSibOutcome

CalledSibling(name, s, o) ==
    /\ op' = name
    /\ file' = NoFile
    /\ out' = NoOutcome
    /\ sib' = s
    /\ sibout' = o

(* load_activity on a .mat, .npz or dict-holding .npy file *)
LoadMapping ==
    /\ op = "idle"
    /\ \E S \in KeySets :
        \E rev \in Orders(S), D \in DefectSets(S) :
          \E v \in DefectShapes(D) :
            \E ext \in {".mat", ".npy", ".npz"}, v73 \in BOOLEAN, mat73 \in BOOLEAN :
              /\ ext # ".mat" => (~v73 /\ ~mat73)
              /\ LET f == MappingFile(ext, v73, mat73, ItemsOf(S, rev, D, v))
                 IN  Called("load_activity", f, load_activity(f))

(* load_activity on a .npy file that holds a bare array *)
LoadArray ==
    /\ op = "idle"
    /\ \E shape \in PlainShapes :
        LET f == ArrayFile(".npy", shape)
        IN  Called("load_activity", f, load_activity(f))

(* load_activity on a path with another extension *)
LoadOther ==
    /\ op = "idle"
    /\ \E ext \in {".csv", ".txt", ""}, shape \in {BaseShape("X")} :
        LET f == ArrayFile(ext, shape)
        IN  Called("load_activity", f, load_activity(f))

LoadIscell ==
    /\ op = "idle"
    /\ \E s \in {[state |-> st, shape |-> sh, med |-> <<>>] :
                st \in {"absent", "denied", "present"}, sh \in IscellShapes} :
        /\ s.state # "present" => s.shape = <<MinNeurons, 2>>
        /\ CalledSibling("_load_iscell", s, _load_iscell(s))

LoadStat ==
    /\ op = "idle"
    /\ \E s \in {[state |-> st, shape |-> <<>>, med |-> m] :
                st \in {"absent", "denied", "present"}, m \in StatRecords} :
        /\ s.state # "present" => s.med = <<>>
        /\ CalledSibling("_load_stat", s, _load_stat(s))

(* The call is over: its result or exception is with the caller, and no   *)
(* state of the call outlives it                                          *)
Finish ==
    /\ op # "idle"
    /\ op' = "idle"
    /\ file' = NoFile
    /\ out' = NoOutcome
    /\ sib' = NoSibling
    /\ sibout' = NoSibOutcome

Next == LoadMapping \/ LoadArray \/ LoadOther \/ LoadIscell \/ LoadStat \/ Finish

Spec == Init /\ [][Next]_vars

----------------------------------------------------------------------------
(* Properties *)

Supported == {".mat", ".npy", ".npz"}

Loaded == op = "load_activity"

(* The file is read by a reader that is present *)
Readable(f) == f.ext = ".mat" /\ f.v73 => f.mat73

(* The file's mapping goes through key resolution *)
KeyResolved(f) ==
    /\ f.dict
    /\ \/ f.ext \in {".npy", ".npz"}
       \/ f.ext = ".mat" /\ f.v73 /\ f.mat73

KeysOf(f) == {f.items[i].key : i \in 1..Len(f.items)}

ValueOf(f, key) == f.items[CHOOSE i \in 1..Len(f.items) : f.items[i].key = key].val

WellFormed(f) == \A i \in 1..Len(f.items) : f.items[i].val.shape = BaseShape(f.items[i].key)

(* The file holds one bare 2D array of at least MinNeurons rows: the      *)
(* object of a .npy file, the only variable of a .mat file, the only      *)
(* (unnamed) member of a .npz archive                                     *)
PlainFile(f) ==
    /\ f.ext \in Supported
    /\ Readable(f)
    /\ IF f.ext = ".npy" THEN ~f.dict ELSE KeysOf(f) = {"arr_0"}

Payload(f) == IF f.ext = ".npy" THEN f.arr ELSE f.items[1].val

Plain2D(f) ==
    /\ PlainFile(f)
    /\ Ndim(Payload(f)) = 2
    /\ Shape0(Payload(f)) >= MinNeurons

(* C1: for .mat, .npy and .npz alike, a file holding a plain 2D array of  *)
(* at least 10 rows loads without error into (X, None, None, None), X     *)
(* being that array unchanged                                             *)
C1_PlainArrayLoads ==
    (Loaded /\ Plain2D(file)) =>
        /\ out.kind = "return"
        /\ out.X.shape = Payload(file).shape
        /\ out.X.data = Payload(file).data
        /\ IsNone(out.Usv) /\ IsNone(out.Vsv) /\ IsNone(out.xy)

(* The array the file gives for X: the bare array, or the value of the    *)
(* last of the keys X and spks                                            *)
RECURSIVE LastX(_, _)
LastX(items, acc) ==
    IF items = <<>> THEN acc
    ELSE LastX(Tail(items),
               IF items[1].key \in {"X", "spks"} THEN items[1].val ELSE acc)

GivenX(f) == IF f.dict THEN LastX(f.items, None) ELSE f.arr

(* C2: a returned X that is not None is 2-dimensional with at least 10    *)
(* rows; it holds the elements of the file's X, and a 3D (N, A, B) only   *)
(* as (N, A*B)                                                            *)
C2_ReturnedXIs2D ==
    (Loaded /\ out.kind = "return" /\ ~IsNone(out.X)) =>
        /\ Ndim(out.X) = 2
        /\ Shape0(out.X) >= MinNeurons
        /\ IsArr(GivenX(file))
        /\ Ndim(GivenX(file)) \in {2, 3}
        /\ out.X.data = GivenX(file).data
        /\ Shape0(out.X) = Shape0(GivenX(file))
        /\ out.X.shape[2] = Prod(Tail(GivenX(file).shape))

C2_FlattenedWitness ==
    /\ Loaded
    /\ out.kind = "return"
    /\ Ndim(GivenX(file)) = 3
    /\ out.X.shape = <<MinNeurons, NumSamples * 3>>

(* C3: a mapping of X (N, T), xpos and ypos never fails on its            *)
(* coordinates: with xpos and ypos of length N it loads X and an xy of    *)
(* shape (N, 2); with xpos of length N+1 it loads X with xy None          *)
C3_CoordinatesNeverFatal ==
    (/\ Loaded
     /\ KeyResolved(file)
     /\ KeysOf(file) = {"X", "xpos", "ypos"}
     /\ ValueOf(file, "X").shape = <<MinNeurons, NumSamples>>
     /\ ValueOf(file, "ypos").shape = <<MinNeurons>>) =>
        /\ out.kind = "return"
        /\ out.X = ValueOf(file, "X")
        /\ ValueOf(file, "xpos").shape = <<MinNeurons>> => out.xy.shape = <<MinNeurons, 2>>
        /\ ValueOf(file, "xpos").shape = <<MinNeurons + 1>> => IsNone(out.xy)

(* C4: a mapping of U0 (N, k) and a scaled Vsv (T, k) alone loads: Sv is  *)
(* the column norms of Vsv, Usv is U0 * Sv, and Usv and Vsv are returned  *)
(* with the same trailing dimension k                                     *)
C4_SvDerivedFromVsv ==
    (/\ Loaded
     /\ KeyResolved(file)
     /\ KeysOf(file) = {"U0", "Vsv"}
     /\ WellFormed(file)) =>
        /\ out.kind = "return"
        /\ out.Usv = Arr(<<MinNeurons, NumComp>>, "U0*norm0(Vsv)")
        /\ out.Vsv = ValueOf(file, "Vsv")
        /\ ShapeLast(out.Usv) = ShapeLast(out.Vsv)

(* C5: no load returns a Usv and a Vsv that differ in their trailing      *)
(* dimension, a Usv of more than 3 dimensions, or a Vsv that is not       *)
(* 2-dimensional                                                          *)
C5_ReturnedFactorsValid ==
    (Loaded /\ out.kind = "return" /\ ~IsNone(out.Usv) /\ ~IsNone(out.Vsv)) =>
        /\ ShapeLast(out.Usv) = ShapeLast(out.Vsv)
        /\ Ndim(out.Usv) <= 3
        /\ Ndim(out.Vsv) = 2

(* C6: a load ends in the "Invalid file type" exception, and so returns   *)
(* nothing, exactly when the extension is none of .mat, .npy, .npz; no    *)
(* other failure of a load is of that kind                                *)
C6_UnsupportedExtension ==
    Loaded =>
        /\ file.ext \notin Supported =>
              out.kind = "raise" /\ out.err = ErrInvalidFileType
        /\ out.err = ErrInvalidFileType => file.ext \notin Supported

C6_Witness == Loaded /\ file.ext = ".csv" /\ out.kind = "raise"

(* C7: a mapping that names neither an activity matrix nor any factor or  *)
(* scaling, so that nothing resolves and no shape is violated, loads      *)
(* without an exception into an all-None result                           *)
C7_NothingResolvedIsSoft ==
    (/\ Loaded
     /\ KeyResolved(file)
     /\ KeysOf(file) \cap {"X", "spks", "Usv", "Vsv", "U", "U0", "V", "V0", "Sv", "sv"} = {}
     /\ WellFormed(file)) =>
        /\ out.kind # "raise"
        /\ IsNone(out.X) /\ IsNone(out.Usv) /\ IsNone(out.Vsv) /\ IsNone(out.xy)

(* C8: _load_iscell and _load_stat never raise: each returns its value    *)
(* with the sibling's path, or (None, None)                               *)
C8_SiblingLookupsNeverRaise ==
    op \in {"_load_iscell", "_load_stat"} =>
        /\ sibout.kind = "return"
        /\ IsNone(sibout.val) <=> sibout.path = NonePath

C10_XYRowsMatchUnits ==
    (Loaded /\ out.kind = "return" /\ ~IsNone(out.xy)) =>
        Shape0(out.xy) = IF ~IsNone(out.X) THEN Shape0(out.X) ELSE Shape0(out.Usv)

C10_Witness ==
    /\ Loaded
    /\ out.kind = "return"
    /\ ~IsNone(out.X)
    /\ ~IsNone(out.xy)
    /\ "xy" \in KeysOf(file)
    /\ ValueOf(file, "xy").shape = <<2, MinNeurons>>

(* C11: a returned result holds exactly one primary representation:      *)
(* either X is not None, or Usv and Vsv both are not None, never both and *)
(* never neither                                                          *)
C11_ExactlyOnePrimary ==
    (Loaded /\ out.kind = "return") =>
        (~IsNone(out.X)) # (~IsNone(out.Usv) /\ ~IsNone(out.Vsv))

(* C12: a mapping without X that holds an unscaled factor (U, U0, V, V0)  *)
(* and neither Sv, sv nor a scaled factor ends in the "no Sv scaling"     *)
(* exception                                                              *)
C12_MissingScalingIsNoSv ==
    (/\ Loaded
     /\ KeyResolved(file)
     /\ KeysOf(file) \cap {"X", "spks", "Sv", "sv", "Usv", "Vsv"} = {}
     /\ KeysOf(file) \cap {"U", "U0", "V", "V0"} # {}
     /\ WellFormed(file)) =>
        out.kind = "raise" /\ out.err = ErrNoSv

(* The same named arrays stored as a .npz archive *)
AsNpz(f) == MappingFile(".npz", FALSE, FALSE, f.items)

(* C13: a .mat file of named arrays (Usv and Vsv, or X with xpos and      *)
(* ypos) loads, by either reader, to the result or exception of the same  *)
(* mapping loaded from a .npz archive                                     *)
C13_MatLoadsLikeNpz ==
    (/\ Loaded
     /\ file.ext = ".mat"
     /\ Readable(file)
     /\ KeysOf(file) \in {{"Usv", "Vsv"}, {"X", "xpos", "ypos"}}
     /\ WellFormed(file)) =>
        out = load_activity(AsNpz(file))

====
